---- MODULE Spec2Model ----
(***************************************************************************)
(* Index maintenance, key lists, index key prefixes and the query iterator *)
(* of badgerhold (index.go), as state machines.                            *)
(*                                                                         *)
(* Byte strings ([]byte, and Go strings used as bytes) are sequences of    *)
(* natural numbers.  Go slices are 0-based, TLA+ sequences 1-based: the    *)
(* element the code calls v[i] is v[i + 1] here.                           *)
(***************************************************************************)
EXTENDS Integers, Sequences, FiniteSets, TLC

VARIABLES
    list,       \* SpecKeyList: the keyList under test
    listPrev,   \* SpecKeyList: the list before the last call
    listOp,     \* SpecKeyList: the last call, [op, key]
    store,      \* the transaction's view of the index entries: key -> stored bytes
    recs,       \* the indexed value of each record key, or NoRec
    last,       \* the last maintenance call: [op, key, old, new, err, raised]
    prevStore,  \* store before the last maintenance call
    pfx,        \* SpecPrefix: two (typeName, indexName) pairs and their prefixes
    db,         \* SpecIter: the store the query's transaction reads: key -> bytes
    query,      \* SpecIter: the query, [index, criteria, badIndex]
    it,         \* SpecIter: the iterator
    out         \* SpecIter: the last iterator call and what it returned

klVars == <<list, listPrev, listOp>>
ixVars == <<store, recs, last, prevStore>>

itVars == <<db, query, it, out>>

vars == <<klVars, ixVars, pfx, itVars>>

(***************************************************************************)
(* Bounds and input domains                                                *)
(***************************************************************************)
\* longest record key, in bytes
MaxKeyLen == 2
\* longest keyList the key list specification builds
MaxListLen == 3

\* longest type name and index name given to indexKeyPrefix, in bytes
MaxNameLen == 3

\* the batch size of the key producers.  The code's constant is 100; the
\* model uses a small batch so that a scan meets batch boundaries.
iteratorKeyMinCacheSize == 2

\* most records indexed at one time
MaxRecords == 2

\* the byte values record keys are drawn from
KeyBytes == {1, 2}

RECURSIVE SeqsUpTo(_, _)
SeqsUpTo(S, n) ==
    IF n = 0 THEN {<<>>}
    ELSE LET shorter == SeqsUpTo(S, n - 1)
         IN  shorter \cup {Append(s, b) : s \in shorter, b \in S}

\* every record key: the non-empty byte strings of at most MaxKeyLen bytes
Keys == SeqsUpTo(KeyBytes, MaxKeyLen) \ {<<>>}

\* the type names and index names given to indexKeyPrefix: the non-empty
\* strings of at most MaxNameLen bytes over "a" and ":"
Names == SeqsUpTo({97, 58}, MaxNameLen) \ {<<>>}

\* the keys of the records the maintenance specifications index; <<1>> is
\* a proper prefix of <<1, 2>>
RecKeys == {<<1>>, <<1, 2>>, <<2>>}

(***************************************************************************)
(* Byte strings                                                            *)
(***************************************************************************)
\* bytes.Compare: -1, 0 or 1, lexicographic, a proper prefix being smaller
RECURSIVE bytesCompare(_, _)
bytesCompare(a, b) ==
    IF a = <<>> /\ b = <<>> THEN 0
    ELSE IF a = <<>> THEN -1
    ELSE IF b = <<>> THEN 1
    ELSE IF Head(a) < Head(b) THEN -1
    ELSE IF Head(a) > Head(b) THEN 1
    ELSE bytesCompare(Tail(a), Tail(b))

\* bytes.Equal
bytesEqual(a, b) == a = b

(***************************************************************************)
(* keyList                                                                 *)
(***************************************************************************)
\* sort.Search(n, f) with f(i) = bytes.Compare(v[i], key) >= 0: the binary
\* search of the standard library, on the 0-based half-open range [i, j)
RECURSIVE searchLoop(_, _, _, _)
searchLoop(v, key, i, j) ==
    IF i < j
    THEN LET h == (i + j) \div 2
         IN  IF ~(bytesCompare(v[h + 1], key) >= 0)
             THEN searchLoop(v, key, h + 1, j)
             ELSE searchLoop(v, key, i, h)
    ELSE i

sortSearch(v, key) == searchLoop(v, key, 0, Len(v))

\* a plausible slip in add: the new key is appended, the shifting copy forgotten
addAppend(v, key) ==
    LET i == sortSearch(v, key)
    IN  IF i < Len(v) /\ bytesEqual(v[i + 1], key)
        THEN v
        ELSE Append(v, key)

\* a plausible slip in add: the "already added" test is dropped
addNoDupCheck(v, key) ==
    LET i == sortSearch(v, key)
    IN  SubSeq(v, 1, i) \o <<key>> \o SubSeq(v, i + 1, Len(v))

\* keyList.add
add(v, key) ==
    LET i == sortSearch(v, key)
    IN  IF i < Len(v) /\ bytesEqual(v[i + 1], key)
        THEN v
        ELSE SubSeq(v, 1, i) \o <<key>> \o SubSeq(v, i + 1, Len(v))

\* a plausible slip in remove: the search predicate is > 0 instead of >= 0,
\* so the position found is the one after key
removeSearchAfter(v, key) ==
    LET i == CHOOSE n \in 0..Len(v) :
                 /\ \A m \in 1..n : bytesCompare(v[m], key) <= 0
                 /\ \A m \in (n + 1)..Len(v) : bytesCompare(v[m], key) > 0
    IN  IF i < Len(v)
        THEN SubSeq(v, 1, i) \o SubSeq(v, i + 2, Len(v))
        ELSE v

\* keyList.remove: the element at the search position is removed whenever
\* the position is inside the list; the code does not compare it with key
remove(v, key) ==
    LET i == sortSearch(v, key)
    IN  IF i < Len(v)
        THEN SubSeq(v, 1, i) \o SubSeq(v, i + 2, Len(v))
        ELSE v

\* keyList.in
in(v, key) ==
    LET i == sortSearch(v, key)
    IN  i < Len(v) /\ bytesEqual(v[i + 1], key)

(***************************************************************************)
(* Index keys                                                              *)
(***************************************************************************)
\* const indexPrefix = "_bhIndex"
indexPrefix == <<95, 98, 104, 73, 110, 100, 101, 120>>

\* the delimiter ":" of indexKeyPrefix
Colon == 58

\* indexKeyPrefix: indexPrefix + ":" + typeName + ":" + indexName
indexKeyPrefix(typeName, indexName) ==
    indexPrefix \o <<Colon>> \o typeName \o <<Colon>> \o indexName

(***************************************************************************)
(* The collaborators of index maintenance: the storer, the codec and the   *)
(* transaction.  fault names the collaborator call that fails during one   *)
(* maintenance call ("none": no call fails).                               *)
(***************************************************************************)
NoErr == "nil"
ErrKeyNotFound == "ErrKeyNotFound"

\* storer.Type(): "T"
TypeName == <<84>>

\* the names of storer.Indexes(): "f" and "g"
IndexNames == {<<102>>, <<103>>}

\* the orders in which a range over the map storer.Indexes() can visit it
IndexOrders == {o \in [1..Cardinality(IndexNames) -> IndexNames] :
                   \A n \in IndexNames : \E p \in DOMAIN o : o[p] = n}

\* field contents: absent, two contents the index function encodes, one it
\* fails on returning no bytes, and one it fails on returning bytes
NoField == 0
BadField == 8
BadFieldWithBytes == 9

\* an index function (type Index) applied to a record value: the encoded
\* bytes of the field named like the index, nil bytes when the record has
\* no such field, an error when the field cannot be encoded
Index(name, value) ==
    LET x == value[name]
    IN  IF x = NoField THEN [isNil |-> TRUE, key |-> <<>>, err |-> NoErr]
        ELSE IF x = BadField THEN [isNil |-> TRUE, key |-> <<>>, err |-> "ErrIndex"]
        ELSE IF x = BadFieldWithBytes
             THEN [isNil |-> FALSE, key |-> <<x>>, err |-> "ErrIndex"]
        ELSE [isNil |-> FALSE, key |-> <<x>>, err |-> NoErr]

\* encode of a keyList
encode(v, fault) ==
    IF fault = "encode" THEN [val |-> <<>>, err |-> "ErrEncode"]
    ELSE [val |-> [gob |-> "keyList", data |-> v], err |-> NoErr]

\* decode of stored bytes into a value of the shape asked for ("keyList" or
\* "record"); bytes that do not encode such a value give an error
decode(b, shape, fault) ==
    IF fault = "decode" \/ b.gob # shape THEN [val |-> <<>>, err |-> "ErrDecode"]
    ELSE [val |-> b.data, err |-> NoErr]

\* tx.Get followed by item.Value
txGet(st, k, fault) ==
    IF fault = "get" THEN [val |-> <<>>, err |-> "ErrGet"]
    ELSE IF k \in DOMAIN st THEN [val |-> st[k], err |-> NoErr]
    ELSE [val |-> <<>>, err |-> ErrKeyNotFound]

\* tx.Set
txSet(st, k, val, fault) ==
    IF fault = "set" THEN [store |-> st, err |-> "ErrSet"]
    ELSE [store |-> [x \in DOMAIN st \cup {k} |-> IF x = k THEN val ELSE st[x]],
          err |-> NoErr]

\* tx.Delete
txDelete(st, k, fault) ==
    IF fault = "delete" THEN [store |-> st, err |-> "ErrDelete"]
    ELSE [store |-> [x \in DOMAIN st \ {k} |-> st[x]], err |-> NoErr]

(***************************************************************************)
(* Index maintenance.  A call returns [store, err, raised]: the store      *)
(* after it, the error it returns, and the error a collaborator raised     *)
(* during it (NoErr if none did).                                          *)
(***************************************************************************)
\* a plausible slip in indexUpdate: an emptied keyList is written back
indexUpdateKeepsEmpty(st, typeName, indexName, key, value, delete, fault) ==
    LET idx == Index(indexName, value)
        indexKey == indexKeyPrefix(typeName, indexName) \o idx.key
        got == txGet(st, indexKey, fault)
        dec == IF got.err = ErrKeyNotFound
               THEN [val |-> <<>>, err |-> NoErr]
               ELSE decode(got.val, "keyList", fault)
        indexValue == IF delete THEN remove(dec.val, key) ELSE add(dec.val, key)
        enc == encode(indexValue, fault)
        put == txSet(st, indexKey, enc.val, fault)
    IN  IF idx.isNil THEN [store |-> st, err |-> NoErr, raised |-> idx.err]
        ELSE IF idx.err # NoErr THEN [store |-> st, err |-> idx.err, raised |-> idx.err]
        ELSE IF got.err # NoErr /\ got.err # ErrKeyNotFound
             THEN [store |-> st, err |-> got.err, raised |-> got.err]
        ELSE IF dec.err # NoErr THEN [store |-> st, err |-> dec.err, raised |-> dec.err]
        ELSE IF enc.err # NoErr THEN [store |-> st, err |-> enc.err, raised |-> enc.err]
        ELSE [store |-> put.store, err |-> put.err, raised |-> put.err]

\* indexUpdate
indexUpdate(st, typeName, indexName, key, value, delete, fault) ==
    LET idx == Index(indexName, value)
        indexKey == indexKeyPrefix(typeName, indexName) \o idx.key
        got == txGet(st, indexKey, fault)
        dec == IF got.err = ErrKeyNotFound
               THEN [val |-> <<>>, err |-> NoErr]
               ELSE decode(got.val, "keyList", fault)
        indexValue == IF delete THEN remove(dec.val, key) ELSE add(dec.val, key)
        del == txDelete(st, indexKey, fault)
        enc == encode(indexValue, fault)
        put == txSet(st, indexKey, enc.val, fault)
    IN  \* if indexKey == nil { return nil }, tested before err
        IF idx.isNil THEN [store |-> st, err |-> NoErr, raised |-> idx.err]
        ELSE IF idx.err # NoErr THEN [store |-> st, err |-> idx.err, raised |-> idx.err]
        ELSE IF got.err # NoErr /\ got.err # ErrKeyNotFound
             THEN [store |-> st, err |-> got.err, raised |-> got.err]
        ELSE IF dec.err # NoErr THEN [store |-> st, err |-> dec.err, raised |-> dec.err]
        ELSE IF Len(indexValue) = 0
             THEN [store |-> del.store, err |-> del.err, raised |-> del.err]
        ELSE IF enc.err # NoErr THEN [store |-> st, err |-> enc.err, raised |-> enc.err]
        ELSE [store |-> put.store, err |-> put.err, raised |-> put.err]

\* the loop of indexAdd and indexDelete over storer.Indexes(), visited in
\* order; it returns at the first error indexUpdate returns.  raised keeps
\* the first error a collaborator raised.
RECURSIVE indexLoop(_, _, _, _, _, _, _)
indexLoop(st, order, key, data, delete, fault, raised) ==
    IF order = <<>> THEN [store |-> st, err |-> NoErr, raised |-> raised]
    ELSE CHOOSE res \in
            {IF r.err # NoErr
             THEN [store |-> r.store, err |-> r.err,
                   raised |-> IF raised # NoErr THEN raised ELSE r.raised]
             ELSE indexLoop(r.store, Tail(order), key, data, delete, fault,
                            IF raised # NoErr THEN raised ELSE r.raised) :
             r \in {indexUpdate(st, TypeName, Head(order), key, data, delete, fault)}} :
            TRUE

\* indexAdd
indexAdd(st, order, key, data, fault) ==
    indexLoop(st, order, key, data, FALSE, fault, NoErr)

\* a plausible slip in indexDelete: the loop returns after its first round
indexDeleteFirstOnly(st, order, key, originalData, fault) ==
    indexLoop(st, SubSeq(order, 1, 1), key, originalData, TRUE, fault, NoErr)

\* indexDelete
indexDelete(st, order, key, originalData, fault) ==
    indexLoop(st, order, key, originalData, TRUE, fault, NoErr)

(***************************************************************************)
(* Vocabulary of the properties, independent of the code's operators       *)
(***************************************************************************)
\* a is before b in byte-string order
ByteLess(a, b) ==
    \/ Len(a) < Len(b) /\ SubSeq(b, 1, Len(a)) = a
    \/ \E p \in 1..Len(a) :
          /\ p <= Len(b)
          /\ SubSeq(a, 1, p - 1) = SubSeq(b, 1, p - 1)
          /\ a[p] < b[p]

Members(v) == {v[n] : n \in 1..Len(v)}

StrictlyAscending(v) == \A n \in 1..(Len(v) - 1) : ByteLess(v[n], v[n + 1])

(***************************************************************************)
(* The query iterator.  A badger iterator is the ascending sequence of the *)
(* keys of the transaction's snapshot and a position in it (1-based; one   *)
(* past the end when exhausted).                                           *)
(***************************************************************************)
\* Key, the name that designates the primary key: the empty string
Key == <<>>

\* typePrefix: "bh_" + typeName
typePrefix(typeName) == <<98, 104, 95>> \o typeName

\* bytes.HasPrefix, the test of ValidForPrefix
hasPrefix(b, prefix) ==
    Len(prefix) <= Len(b) /\ SubSeq(b, 1, Len(prefix)) = prefix

\* the keys of a store in the order a badger iterator visits them
RECURSIVE sortedKeys(_)
sortedKeys(S) ==
    IF S = {} THEN <<>>
    ELSE LET least == CHOOSE k \in S : \A j \in S : bytesCompare(k, j) <= 0
         IN  <<least>> \o sortedKeys(S \ {least})

\* iter.Seek(k): the position of the first key >= k
seek(keys, k) ==
    CHOOSE p \in 1..(Len(keys) + 1) :
        /\ \A q \in 1..(p - 1) : bytesCompare(keys[q], k) < 0
        /\ p <= Len(keys) => bytesCompare(keys[p], k) >= 0

\* iter.ValidForPrefix(prefix)
validForPrefix(keys, pos, prefix) ==
    pos <= Len(keys) /\ hasPrefix(keys[pos], prefix)

\* matchesAllCriteria on encoded bytes b.  Criteria are none, an equality
\* with encoded bytes, a match function, or criteria whose evaluation fails.
matchesAllCriteria(criteria, b) ==
    IF criteria.kind = "none" THEN [ok |-> TRUE, err |-> NoErr]
    ELSE IF criteria.kind = "eq" THEN [ok |-> b = criteria.arg, err |-> NoErr]
    ELSE IF criteria.kind = "fn" THEN [ok |-> TRUE, err |-> NoErr]
    ELSE [ok |-> FALSE, err |-> "ErrCriteria"]

\* hasMatchFunc
hasMatchFunc(criteria) == criteria.kind = "fn"

\* An indexExists without the test for a type that has no record
indexExistsNoEmptyCase(keys, typeName, indexName) ==
    LET iPrefix == indexKeyPrefix(typeName, indexName)
    IN  validForPrefix(keys, seek(keys, iPrefix), iPrefix)

\* indexExists
indexExists(keys, typeName, indexName) ==
    LET iPrefix == indexKeyPrefix(typeName, indexName)
        tPrefix == typePrefix(typeName)
    IN  IF ~validForPrefix(keys, seek(keys, tPrefix), tPrefix) THEN TRUE
        ELSE validForPrefix(keys, seek(keys, iPrefix), iPrefix)

\* A producer returns [keys, err, pos, raised]: the batch, the error it
\* returns, the iterator position it leaves, and the codec error raised
\* during the call (NoErr if none was).

\* nextKeys of the primary-key scan (lines 191-220)
RECURSIVE keyScan(_, _, _, _, _, _)
keyScan(st, keys, prefix, criteria, pos, nKeys) ==
    IF ~(Len(nKeys) < iteratorKeyMinCacheSize) \/ ~validForPrefix(keys, pos, prefix)
    THEN [keys |-> nKeys, err |-> NoErr, pos |-> pos, raised |-> NoErr]
    ELSE CHOOSE res \in
            {IF dec.err # NoErr
             THEN [keys |-> <<>>, err |-> dec.err, pos |-> pos, raised |-> dec.err]
             ELSE IF m.err # NoErr
             THEN [keys |-> <<>>, err |-> m.err, pos |-> pos, raised |-> NoErr]
             ELSE keyScan(st, keys, prefix, criteria, pos + 1,
                          IF m.ok THEN Append(nKeys, keys[pos]) ELSE nKeys) :
             dec \in {decode(st[keys[pos]], "record", "none")},
             m \in {matchesAllCriteria(criteria, keys[pos])}} : TRUE

\* A full-type scan whose loop runs while len(nKeys) <= the batch size
RECURSIVE fullScanOneMore(_, _, _, _)
fullScanOneMore(keys, prefix, pos, nKeys) ==
    IF ~(Len(nKeys) <= iteratorKeyMinCacheSize) \/ ~validForPrefix(keys, pos, prefix)
    THEN [keys |-> nKeys, err |-> NoErr, pos |-> pos, raised |-> NoErr]
    ELSE fullScanOneMore(keys, prefix, pos + 1, Append(nKeys, keys[pos]))

\* A full-type scan that does not move the store iterator past the key that
\* fills the batch
RECURSIVE fullScanNoAdvance(_, _, _, _)
fullScanNoAdvance(keys, prefix, pos, nKeys) ==
    IF ~(Len(nKeys) < iteratorKeyMinCacheSize) \/ ~validForPrefix(keys, pos, prefix)
    THEN [keys |-> nKeys, err |-> NoErr, pos |-> pos, raised |-> NoErr]
    ELSE IF Len(nKeys) + 1 = iteratorKeyMinCacheSize
    THEN [keys |-> Append(nKeys, keys[pos]), err |-> NoErr, pos |-> pos,
          raised |-> NoErr]
    ELSE fullScanNoAdvance(keys, prefix, pos + 1, Append(nKeys, keys[pos]))

\* A full-type scan that moves the store iterator twice after the key that
\* fills the batch
RECURSIVE fullScanSkipsAtBoundary(_, _, _, _)
fullScanSkipsAtBoundary(keys, prefix, pos, nKeys) ==
    IF ~(Len(nKeys) < iteratorKeyMinCacheSize) \/ ~validForPrefix(keys, pos, prefix)
    THEN [keys |-> nKeys, err |-> NoErr, pos |-> pos, raised |-> NoErr]
    ELSE IF Len(nKeys) + 1 = iteratorKeyMinCacheSize
    THEN [keys |-> Append(nKeys, keys[pos]), err |-> NoErr,
          pos |-> IF pos + 2 <= Len(keys) + 1 THEN pos + 2 ELSE pos + 1,
          raised |-> NoErr]
    ELSE fullScanSkipsAtBoundary(keys, prefix, pos + 1, Append(nKeys, keys[pos]))

\* nextKeys of the full-type scan (lines 229-241)
RECURSIVE fullScan(_, _, _, _)
fullScan(keys, prefix, pos, nKeys) ==
    IF ~(Len(nKeys) < iteratorKeyMinCacheSize) \/ ~validForPrefix(keys, pos, prefix)
    THEN [keys |-> nKeys, err |-> NoErr, pos |-> pos, raised |-> NoErr]
    ELSE fullScan(keys, prefix, pos + 1, Append(nKeys, keys[pos]))

\* An indexed lookup that matches the criteria against the whole entry key,
\* the index prefix not removed
RECURSIVE indexScanNoStrip(_, _, _, _, _, _, _)
indexScanNoStrip(st, keys, prefix, criteria, pos, nKeys, raised) ==
    IF ~(Len(nKeys) < iteratorKeyMinCacheSize) \/ ~validForPrefix(keys, pos, prefix)
    THEN [keys |-> nKeys, err |-> NoErr, pos |-> pos, raised |-> raised]
    ELSE CHOOSE res \in
            {IF m.err # NoErr
             THEN [keys |-> <<>>, err |-> m.err, pos |-> pos, raised |-> raised]
             ELSE IF ~m.ok
             THEN indexScanNoStrip(st, keys, prefix, criteria, pos + 1, nKeys, raised)
             ELSE IF dec.err # NoErr
             THEN indexScanNoStrip(st, keys, prefix, criteria, pos + 1, nKeys,
                                   IF raised # NoErr THEN raised ELSE dec.err)
             ELSE indexScanNoStrip(st, keys, prefix, criteria, pos + 1,
                                   nKeys \o dec.val, raised) :
             m \in {matchesAllCriteria(criteria, keys[pos])},
             dec \in {decode(st[keys[pos]], "keyList", "none")}} : TRUE

\* nextKeys of the indexed lookup (lines 249-284).  The error item.Value
\* returns is not assigned: an entry whose KeyList cannot be decoded adds
\* no key and the loop goes on.
RECURSIVE indexScan(_, _, _, _, _, _, _)
indexScan(st, keys, prefix, criteria, pos, nKeys, raised) ==
    IF ~(Len(nKeys) < iteratorKeyMinCacheSize) \/ ~validForPrefix(keys, pos, prefix)
    THEN [keys |-> nKeys, err |-> NoErr, pos |-> pos, raised |-> raised]
    ELSE CHOOSE res \in
            {IF m.err # NoErr
             THEN [keys |-> <<>>, err |-> m.err, pos |-> pos, raised |-> raised]
             ELSE IF ~m.ok
             THEN indexScan(st, keys, prefix, criteria, pos + 1, nKeys, raised)
             ELSE IF dec.err # NoErr
             THEN indexScan(st, keys, prefix, criteria, pos + 1, nKeys,
                            IF raised # NoErr THEN raised ELSE dec.err)
             ELSE indexScan(st, keys, prefix, criteria, pos + 1,
                            nKeys \o dec.val, raised) :
             m \in {matchesAllCriteria(criteria,
                        SubSeq(keys[pos], Len(prefix) + 1, Len(keys[pos])))},
             dec \in {decode(st[keys[pos]], "keyList", "none")}} : TRUE

\* The keys of list v up to the first one the store does not hold, and
\* whether there is such a key
RECURSIVE resolved(_, _, _)
resolved(st, v, acc) ==
    IF v = <<>> THEN [keys |-> acc, err |-> NoErr]
    ELSE IF v[1] \notin DOMAIN st THEN [keys |-> acc, err |-> ErrKeyNotFound]
    ELSE resolved(st, Tail(v), Append(acc, v[1]))

\* The unbatched scan: the loop bodies of the three producers (lines 199-217,
\* 237-238, 257-279) taken one store item at a time, each candidate key
\* looked up (lines 318-322) before the next item is read.  It gives the
\* keys returned up to the end of the prefix or the first error, and that
\* error.  The batch size does not occur in it.
RECURSIVE unbatched(_, _, _, _, _, _, _)
unbatched(st, keys, strategy, prefix, criteria, pos, acc) ==
    IF ~validForPrefix(keys, pos, prefix) THEN [keys |-> acc, err |-> NoErr]
    ELSE IF strategy = "full"
    THEN unbatched(st, keys, strategy, prefix, criteria, pos + 1,
                   Append(acc, keys[pos]))
    ELSE IF strategy = "key"
    THEN CHOOSE res \in
            {IF dec.err # NoErr THEN [keys |-> acc, err |-> dec.err]
             ELSE IF m.err # NoErr THEN [keys |-> acc, err |-> m.err]
             ELSE unbatched(st, keys, strategy, prefix, criteria, pos + 1,
                            IF m.ok THEN Append(acc, keys[pos]) ELSE acc) :
             dec \in {decode(st[keys[pos]], "record", "none")},
             m \in {matchesAllCriteria(criteria, keys[pos])}} : TRUE
    ELSE CHOOSE res \in
            {IF m.err # NoErr THEN [keys |-> acc, err |-> m.err]
             ELSE IF ~m.ok \/ dec.err # NoErr
             THEN unbatched(st, keys, strategy, prefix, criteria, pos + 1, acc)
             ELSE IF got.err # NoErr THEN got
             ELSE unbatched(st, keys, strategy, prefix, criteria, pos + 1,
                            got.keys) :
             m \in {matchesAllCriteria(criteria,
                        SubSeq(keys[pos], Len(prefix) + 1, Len(keys[pos])))},
             dec \in {decode(st[keys[pos]], "keyList", "none")},
             got \in {resolved(st, decode(st[keys[pos]], "keyList", "none").val,
                               acc)}} : TRUE

\* i.nextKeys(i.iter): the producer newIterator chose
nextKeys(st, i) ==
    IF i.strategy = "key"
    THEN keyScan(st, i.keys, i.prefix, i.criteria, i.pos, <<>>)
    ELSE IF i.strategy = "full"
    THEN fullScan(i.keys, i.prefix, i.pos, <<>>)
    ELSE indexScan(st, i.keys, i.prefix, i.criteria, i.pos, <<>>, NoErr)

\* query.badIndex as newIterator sets it
badIndexOf(st, typeName, q) ==
    IF q.index # <<>>
    THEN ~indexExists(sortedKeys(DOMAIN st), typeName, q.index)
    ELSE q.badIndex

\* A choice of strategy that does not look for a match function
strategyOfNoMatchFunc(index, badIndex, criteria) ==
    IF index = Key /\ ~badIndex THEN "key"
    ELSE IF badIndex THEN "full"
    ELSE "index"

\* A choice of strategy that does not look at query.badIndex
strategyOfIgnoresBadIndex(index, badIndex, criteria) ==
    IF index = Key THEN "key"
    ELSE IF hasMatchFunc(criteria) THEN "full"
    ELSE "index"

\* newIterator's choice of strategy: the tests of lines 188 and 226, in the
\* order the code makes them
strategyOf(index, badIndex, criteria) ==
    IF index = Key /\ ~badIndex THEN "key"
    ELSE IF badIndex \/ hasMatchFunc(criteria) THEN "full"
    ELSE "index"

\* newIterator: the iterator it returns
newIterator(st, typeName, q) ==
    LET keys == sortedKeys(DOMAIN st)
        badIndex == badIndexOf(st, typeName, q)
        criteria == q.criteria
        strategy == strategyOf(q.index, badIndex, criteria)
        prefix == IF strategy = "index" THEN indexKeyPrefix(typeName, q.index)
                  ELSE typePrefix(typeName)
    IN  [made |-> TRUE, strategy |-> strategy, prefix |-> prefix,
         criteria |-> criteria, keys |-> keys, pos |-> seek(keys, prefix),
         keyCache |-> <<>>, err |-> NoErr]

\* What a Next call reports besides what it returns: whether it called the
\* producer (called), the batch the producer returned (batch), the codec
\* error raised while the batch was produced (raised), whether it popped a
\* candidate key from the key cache (popped) and that key (cand).
NoCall == [called |-> FALSE, batch |-> <<>>, raised |-> NoErr]

\* return nil, nil: the iterator is left as j
nilOut(j, g) ==
    [it |-> j, key |-> <<>>, value |-> <<>>, isNil |-> TRUE, raised |-> g.raised,
     called |-> g.called, batch |-> g.batch, popped |-> FALSE, cand |-> <<>>]

\* A lookup that steps over a key the store does not hold and goes on with
\* the next key of the cache
RECURSIVE popAndGetSkipsMissing(_, _, _, _, _)
popAndGetSkipsMissing(st, i, cache, pos, g) ==
    LET key == cache[1]
        got == txGet(st, key, "none")
        j == [i EXCEPT !.keyCache = Tail(cache), !.pos = pos]
    IN  IF got.err # NoErr /\ Len(cache) > 1
        THEN popAndGetSkipsMissing(st, i, Tail(cache), pos, g)
        ELSE IF got.err # NoErr
        THEN [nilOut(j, g) EXCEPT !.popped = TRUE, !.cand = key]
        ELSE [it |-> j, key |-> key, value |-> got.val, isNil |-> FALSE,
              raised |-> g.raised, called |-> g.called, batch |-> g.batch,
              popped |-> TRUE, cand |-> key]

\* Next, lines 315-333: pop the first key of the cache and look it up
popAndGet(st, i, cache, pos, g) ==
    LET key == cache[1]
        got == txGet(st, key, "none")
        j == [i EXCEPT !.keyCache = Tail(cache), !.pos = pos]
    IN  IF got.err # NoErr
        THEN [nilOut([j EXCEPT !.err = got.err], g) EXCEPT !.popped = TRUE,
                                                           !.cand = key]
        ELSE [it |-> j, key |-> key, value |-> got.val, isNil |-> FALSE,
              raised |-> g.raised, called |-> g.called, batch |-> g.batch,
              popped |-> TRUE, cand |-> key]

\* Next, lines 301-333: refill an empty key cache from the producer, then
\* pop and look up
refillAndPop(st, i) ==
    IF Len(i.keyCache) # 0 THEN popAndGet(st, i, i.keyCache, i.pos, NoCall)
    ELSE CHOOSE res \in
            {LET g == [called |-> TRUE, batch |-> b.keys, raised |-> b.raised]
             IN  IF b.err # NoErr
                 THEN nilOut([i EXCEPT !.err = b.err, !.pos = b.pos], g)
                 ELSE IF Len(b.keys) = 0
                 THEN nilOut([i EXCEPT !.pos = b.pos], g)
                 ELSE popAndGet(st, i, b.keys, b.pos, g) :
             b \in {nextKeys(st, i)}} : TRUE

\* A Next without the test of the recorded error
iteratorNextIgnoresErr(st, i) ==
    IF i.strategy = "none" THEN nilOut(i, NoCall)
    ELSE refillAndPop(st, i)

\* iterator.Next: the iterator after the call (it), what the call returns
\* (key, value; isNil: it returns (nil, nil)) and what it reports
iteratorNext(st, i) ==
    IF i.err # NoErr THEN nilOut(i, NoCall)
    ELSE IF i.strategy = "none" THEN nilOut(i, NoCall)
    ELSE refillAndPop(st, i)

\* iterator.Error
iteratorError(i) == i.err

(***************************************************************************)
(* The callers of index maintenance: a record is inserted (indexAdd),      *)
(* deleted (indexDelete with the value it was indexed with) or updated     *)
(* (indexDelete with the old value, then indexAdd with the new one), each  *)
(* inside one transaction.  A transaction in which a call returned an      *)
(* error is discarded: the store and the records stay as they were.        *)
(***************************************************************************)
\* record values: the content of field f and of field g
Value(f, g) == [n \in IndexNames |-> IF n = <<102>> THEN f ELSE g]

\* the record values of the specification without failures
Values == {Value(f, g) : f \in {NoField, 1, 2}, g \in {1, 2}}

\* the record values of the specification of arbitrary calls
AnyValues == {Value(1, 1), Value(2, 1), Value(NoField, 1)}

\* the record values of the specification with failures
FaultValues == {Value(1, 1), Value(NoField, 2), Value(BadField, 1),
                Value(1, BadField), Value(BadFieldWithBytes, 1)}

\* the collaborator calls that can fail
Faults == {"none", "get", "decode", "encode", "set", "delete"}

IdleKeyList ==
    /\ list = <<>>
    /\ listPrev = <<>>
    /\ listOp = [op |-> "new", key |-> <<>>]

IdlePrefix ==
    pfx = [a |-> <<>>, b |-> <<>>, outA |-> <<>>, outB |-> <<>>, done |-> FALSE]

\* no iterator made yet
NoIterator ==
    [made |-> FALSE, strategy |-> "none", prefix |-> <<>>,
     criteria |-> [kind |-> "none", arg |-> <<>>], keys |-> <<>>,
     pos |-> 1, keyCache |-> <<>>, err |-> NoErr]

\* The record of the last iterator call: the call (op), the iterator before
\* it (before), what Next returned and reported, what Error() returns after
\* it (error), and the keys the Next calls have returned so far (yielded).
NoOut ==
    [op |-> "none", before |-> NoIterator, key |-> <<>>, value |-> <<>>,
     isNil |-> TRUE, raised |-> NoErr, error |-> NoErr, called |-> FALSE,
     batch |-> <<>>, popped |-> FALSE, cand |-> <<>>, yielded |-> <<>>]

IdleIter ==
    /\ db = <<>>
    /\ query = [index |-> <<>>, criteria |-> [kind |-> "none", arg |-> <<>>],
                badIndex |-> FALSE]
    /\ it = NoIterator
    /\ out = NoOut

IdleIndex ==
    /\ store = <<>>
    /\ recs = <<>>
    /\ last = [op |-> "new", key |-> <<>>, old |-> <<>>, new |-> <<>>,
               err |-> NoErr, raised |-> NoErr]
    /\ prevStore = <<>>

\* the record map with k bound to v
WithRec(rs, k, v) == [x \in DOMAIN rs \cup {k} |-> IF x = k THEN v ELSE rs[x]]

\* the record map without k
WithoutRec(rs, k) == [x \in DOMAIN rs \ {k} |-> rs[x]]

RecordInsert(k, v, order, fault) ==
    /\ k \notin DOMAIN recs
    /\ Cardinality(DOMAIN recs) < MaxRecords
    /\ \E r \in {indexAdd(store, order, k, v, fault)} :
          /\ store' = IF r.err = NoErr THEN r.store ELSE store
          /\ recs' = IF r.err = NoErr THEN WithRec(recs, k, v) ELSE recs
          /\ last' = [op |-> "add", key |-> k, old |-> v, new |-> v,
                      err |-> r.err, raised |-> r.raised]
    /\ prevStore' = store
    /\ UNCHANGED <<klVars, pfx, itVars>>

RecordDelete(k, order, fault) ==
    /\ k \in DOMAIN recs
    /\ \E r \in {indexDelete(store, order, k, recs[k], fault)} :
          /\ store' = IF r.err = NoErr THEN r.store ELSE store
          /\ recs' = IF r.err = NoErr THEN WithoutRec(recs, k) ELSE recs
          /\ last' = [op |-> "delete", key |-> k, old |-> recs[k], new |-> recs[k],
                      err |-> r.err, raised |-> r.raised]
    /\ prevStore' = store
    /\ UNCHANGED <<klVars, pfx, itVars>>

RecordUpdate(k, v, order, fault) ==
    /\ k \in DOMAIN recs
    /\ \E d \in {indexDelete(store, order, k, recs[k], fault)} :
       \E a \in {IF d.err # NoErr THEN d ELSE indexAdd(d.store, order, k, v, fault)} :
          /\ store' = IF a.err = NoErr THEN a.store ELSE store
          /\ recs' = IF a.err = NoErr THEN WithRec(recs, k, v) ELSE recs
          /\ last' = [op |-> "update", key |-> k, old |-> recs[k], new |-> v,
                      err |-> a.err,
                      raised |-> IF d.raised # NoErr THEN d.raised ELSE a.raised]
    /\ prevStore' = store
    /\ UNCHANGED <<klVars, pfx, itVars>>

(***************************************************************************)
(* Spec: index maintenance when no collaborator fails                      *)
(***************************************************************************)
Init == IdleKeyList /\ IdleIndex /\ IdlePrefix /\ IdleIter

Next ==
    \/ \E k \in RecKeys, v \in Values, o \in IndexOrders : RecordInsert(k, v, o, "none")
    \/ \E k \in RecKeys, o \in IndexOrders : RecordDelete(k, o, "none")
    \/ \E k \in RecKeys, v \in Values, o \in IndexOrders : RecordUpdate(k, v, o, "none")

Spec == Init /\ [][Next]_vars

\* the keyList stored in index entry ik of store st
EntryKeys(st, ik) == st[ik].data

\* the key of the index entry of index n for the encoded field value e
EntryKey(n, e) == indexKeyPrefix(TypeName, n) \o e

\* the encoded field values of the records of Spec
Encodings ==
    UNION {{Index(n, v).key : v \in {w \in Values : w[n] # NoField}} :
           n \in IndexNames}

\* the record keys whose current value encodes to e under index n
ExpectedKeys(n, e) ==
    {k \in DOMAIN recs : ~Index(n, recs[k]).isNil /\ Index(n, recs[k]).key = e}

\* C1: when every indexDelete (and the delete half of every update) is
\* given the record's exact prior value, each stored index entry's KeyList
\* holds exactly the record keys whose current value for that index encodes
\* to the entry's field value: no live key is missing, no deleted or
\* re-valued key remains.
C1_EntriesMatchRecords ==
    /\ \A ik \in DOMAIN store :
          \E n \in IndexNames, e \in Encodings :
             /\ ik = EntryKey(n, e)
             /\ Members(EntryKeys(store, ik)) = ExpectedKeys(n, e)
             /\ Len(EntryKeys(store, ik)) = Cardinality(ExpectedKeys(n, e))
    /\ \A n \in IndexNames, e \in Encodings :
          ExpectedKeys(n, e) # {} => EntryKey(n, e) \in DOMAIN store

C1_Witness ==
    /\ last.op = "update"
    /\ last.old[<<102>>] # last.new[<<102>>]
    /\ last.old[<<102>>] # NoField
    /\ \E ik \in DOMAIN prevStore :
          /\ last.key \in Members(EntryKeys(prevStore, ik))
          /\ ik \in DOMAIN store
          /\ Members(EntryKeys(store, ik)) =
                Members(EntryKeys(prevStore, ik)) \ {last.key}
    /\ \E ik \in DOMAIN store :
          /\ Len(EntryKeys(store, ik)) = 2
          /\ last.key \in Members(EntryKeys(store, ik))
          /\ ik \notin DOMAIN prevStore
                \/ last.key \notin Members(EntryKeys(prevStore, ik))

\* C5: after a record indexed with indexAdd(key, v) is passed to
\* indexDelete(key, v) with that same v, no index entry's KeyList contains
\* the key, and every entry in which the key was the sole member no longer
\* exists in the store.
C5_DeleteRemovesKey ==
    last.op = "delete" =>
        /\ \A ik \in DOMAIN store : last.key \notin Members(EntryKeys(store, ik))
        /\ \A ik \in DOMAIN prevStore :
              Members(EntryKeys(prevStore, ik)) = {last.key} => ik \notin DOMAIN store

C5_Witness ==
    /\ last.op = "delete"
    /\ \E ik \in DOMAIN prevStore : Members(EntryKeys(prevStore, ik)) = {last.key}
    /\ \E ik \in DOMAIN prevStore :
          /\ last.key \in Members(EntryKeys(prevStore, ik))
          /\ Len(EntryKeys(prevStore, ik)) = 2
          /\ ik \in DOMAIN store

\* C7: an update with old = new on an indexed record leaves every index
\* entry exactly as it was: the key once in its KeyList, no other key
\* removed, the entry not left deleted.
C7_SameValueUpdateKeepsIndex ==
    (last.op = "update" /\ last.old = last.new) => store = prevStore

C7_Witness ==
    /\ last.op = "update"
    /\ last.old = last.new
    /\ \E ik \in DOMAIN store : Members(EntryKeys(store, ik)) = {last.key}
    /\ \E ik \in DOMAIN store :
          /\ Len(EntryKeys(store, ik)) = 2
          /\ EntryKeys(store, ik)[1] = last.key

(***************************************************************************)
(* SpecAny: indexAdd and indexDelete called with any key and any value, in *)
(* any order, when no collaborator fails                                   *)
(***************************************************************************)
AnyIndexAdd(k, v, order) ==
    /\ \E r \in {indexAdd(store, order, k, v, "none")} :
          /\ store' = r.store
          /\ last' = [op |-> "add", key |-> k, old |-> v, new |-> v,
                      err |-> r.err, raised |-> r.raised]
    /\ prevStore' = store
    /\ UNCHANGED <<recs, klVars, pfx, itVars>>

AnyIndexDelete(k, v, order) ==
    /\ \E r \in {indexDelete(store, order, k, v, "none")} :
          /\ store' = r.store
          /\ last' = [op |-> "delete", key |-> k, old |-> v, new |-> v,
                      err |-> r.err, raised |-> r.raised]
    /\ prevStore' = store
    /\ UNCHANGED <<recs, klVars, pfx, itVars>>

NextAny ==
    \/ \E k \in RecKeys, v \in AnyValues, o \in IndexOrders : AnyIndexAdd(k, v, o)
    \/ \E k \in RecKeys, v \in AnyValues, o \in IndexOrders : AnyIndexDelete(k, v, o)

SpecAny == Init /\ [][NextAny]_vars

\* C6: no stored index entry has an empty KeyList: an entry whose KeyList
\* becomes empty is deleted from the store, never written back empty.
C6_NoEmptyEntry ==
    \A ik \in DOMAIN store : Len(EntryKeys(store, ik)) > 0

C6_Witness ==
    /\ last.op = "delete"
    /\ \E ik \in DOMAIN prevStore :
          /\ Members(EntryKeys(prevStore, ik)) = {last.key}
          /\ ik \notin DOMAIN store
    /\ DOMAIN store # {}

\* C20: indexDelete(key, v) removes no record key other than key from any
\* index entry and deletes no entry that holds another record's key, for
\* every v, also when key is not in the KeyList of v's entry.
C20_DeleteTouchesOnlyKey ==
    last.op = "delete" =>
        \A ik \in DOMAIN prevStore :
            \A k \in Members(EntryKeys(prevStore, ik)) \ {last.key} :
                ik \in DOMAIN store /\ k \in Members(EntryKeys(store, ik))

(***************************************************************************)
(* SpecFault: index maintenance when collaborators may fail                *)
(***************************************************************************)
NextFault ==
    \/ \E k \in RecKeys, v \in FaultValues, o \in IndexOrders, x \in Faults :
          RecordInsert(k, v, o, x)
    \/ \E k \in RecKeys, o \in IndexOrders, x \in Faults : RecordDelete(k, o, x)
    \/ \E k \in RecKeys, v \in FaultValues, o \in IndexOrders, x \in Faults :
          RecordUpdate(k, v, o, x)

SpecFault == Init /\ [][NextFault]_vars

\* C9: indexAdd and indexDelete return to their caller every error raised
\* while maintaining an index (index function, store Get other than
\* key-not-found, KeyList decode or encode, store Set or Delete).
C9_RaisedErrorIsReturned ==
    last.raised # NoErr => last.err = last.raised

(***************************************************************************)
(* SpecPrefix: indexKeyPrefix applied to two (typeName, indexName) pairs   *)
(***************************************************************************)
InitPrefix ==
    /\ IdleKeyList
    /\ IdleIndex
    /\ IdleIter
    /\ \E ta \in Names, ia \in Names, tb \in Names, ib \in Names :
          pfx = [a |-> <<ta, ia>>, b |-> <<tb, ib>>,
                 outA |-> <<>>, outB |-> <<>>, done |-> FALSE]

PrefixCall ==
    /\ ~pfx.done
    /\ pfx' = [pfx EXCEPT !.outA = indexKeyPrefix(pfx.a[1], pfx.a[2]),
                          !.outB = indexKeyPrefix(pfx.b[1], pfx.b[2]),
                          !.done = TRUE]
    /\ UNCHANGED <<klVars, ixVars, itVars>>

NextPrefix == PrefixCall

SpecPrefix == InitPrefix /\ [][NextPrefix]_vars

\* C8: indexKeyPrefix is collision-free: for any two distinct
\* (typeName, indexName) pairs it returns distinct byte strings.
C8_PrefixCollisionFree ==
    (pfx.done /\ pfx.a # pfx.b) => pfx.outA # pfx.outB

(***************************************************************************)
(* SpecIter: one query over a store: newIterator, then Next and Error      *)
(* calls.  The store is any store of records of the type and entries of    *)
(* index "f", well-formed or not: a stored value may not decode, and a     *)
(* KeyList may name a key the store does not hold.                         *)
(***************************************************************************)
\* the store keys of the records
RecordKeys == {typePrefix(TypeName) \o k : k \in RecKeys}

\* what a record key can hold: nothing, a record, or bytes that do not decode
RecordCells == {[gob |-> "none", data |-> <<>>], [gob |-> "junk", data |-> <<>>]}
               \cup {[gob |-> "record", data |-> Value(f, 1)] : f \in {1, 2}}

\* the KeyLists an index entry can hold: the ascending lists of record keys
KeyLists == {sortedKeys(S) : S \in SUBSET RecordKeys} \ {<<>>}

\* what an index entry key can hold
EntryCells == {[gob |-> "none", data |-> <<>>], [gob |-> "junk", data |-> <<>>]}
              \cup {[gob |-> "keyList", data |-> kl] : kl \in KeyLists}

\* the keys of the entries of index "f"
EntryKeysF == {indexKeyPrefix(TypeName, <<102>>) \o e : e \in {<<1>>, <<2>>}}

\* the store holding the cells that hold something
StoreOf(cells) ==
    [k \in {x \in DOMAIN cells : cells[x].gob # "none"} |-> cells[k]]

Stores ==
    {StoreOf([k \in RecordKeys \cup EntryKeysF |->
                 IF k \in RecordKeys THEN rc[k] ELSE ec[k]]) :
        rc \in [RecordKeys -> RecordCells], ec \in [EntryKeysF -> EntryCells]}

Criteria(kind, arg) == [kind |-> kind, arg |-> arg]

Queries ==
    {[index |-> Key, criteria |-> c, badIndex |-> FALSE] :
        c \in {Criteria("none", <<>>), Criteria("eq", typePrefix(TypeName) \o <<1>>),
               Criteria("fn", <<>>), Criteria("err", <<>>)}}
    \cup
    {[index |-> <<102>>, criteria |-> c, badIndex |-> FALSE] :
        c \in {Criteria("none", <<>>), Criteria("eq", <<1>>),
               Criteria("fn", <<>>), Criteria("err", <<>>)}}
    \cup
    {[index |-> <<103>>, criteria |-> c, badIndex |-> FALSE] :
        c \in {Criteria("none", <<>>), Criteria("eq", <<1>>), Criteria("err", <<>>)}}

InitIter ==
    /\ IdleKeyList
    /\ IdleIndex
    /\ IdlePrefix
    /\ db \in Stores
    /\ query \in Queries
    /\ it = NoIterator
    /\ out = NoOut

NewIterator ==
    /\ ~it.made
    /\ it' = newIterator(db, TypeName, query)
    /\ query' = [query EXCEPT !.badIndex = badIndexOf(db, TypeName, query)]
    /\ out' = [out EXCEPT !.op = "new"]
    /\ UNCHANGED <<klVars, ixVars, pfx, db>>

\* Next, then Error: out.error is what Error() returns after the call
IterNext ==
    /\ it.made
    /\ \E r \in {iteratorNext(db, it)} :
          /\ it' = r.it
          /\ out' = [op |-> "next", before |-> it, key |-> r.key,
                     value |-> r.value, isNil |-> r.isNil, raised |-> r.raised,
                     error |-> iteratorError(r.it), called |-> r.called,
                     batch |-> r.batch, popped |-> r.popped, cand |-> r.cand,
                     yielded |-> IF r.isNil THEN out.yielded
                                 ELSE Append(out.yielded, r.key)]
    /\ UNCHANGED <<klVars, ixVars, pfx, db, query>>

NextIter == NewIterator \/ IterNext

SpecIter == InitIter /\ [][NextIter]_vars

\* C10: a codec error raised while a scan strategy produces a batch
\* (decoding a record in the primary-key scan, decoding an index entry's
\* KeyList in the indexed lookup) is recorded as the iterator's error:
\* Error() is non-nil after the Next call that triggered it.
C10_CodecErrorRecorded ==
    (out.op = "next" /\ out.raised # NoErr) => out.error = out.raised

\* C11: once the iterator has recorded an error, a Next call returns
\* (nil, nil) without calling the producer, without consuming the key cache
\* and without moving the store iterator, and Error() after it returns that
\* same error; the iterator is then as it was, so the same holds of every
\* later call.
C11_ErrorIsSticky ==
    (out.op = "next" /\ out.before.err # NoErr) =>
        /\ out.isNil
        /\ ~out.called
        /\ ~out.popped
        /\ it.keyCache = out.before.keyCache
        /\ it.pos = out.before.pos
        /\ out.error = out.before.err
        /\ it = out.before

\* a Next call on an iterator that holds an error, a non-empty key cache and
\* a store iterator that is still inside the prefix
C11_Witness ==
    /\ out.op = "next"
    /\ out.before.err # NoErr
    /\ Len(out.before.keyCache) > 0
    /\ validForPrefix(out.before.keys, out.before.pos, out.before.prefix)

\* the length of the longest KeyList a store holds
LongestKeyList(st) ==
    LET lens == {Len(st[k].data) : k \in {x \in DOMAIN st : st[x].gob = "keyList"}}
    IN  IF lens = {} THEN 0 ELSE CHOOSE n \in lens : \A l \in lens : l <= n

\* C12: every invocation of a batch producer, for each of the three
\* strategies, returns at most iteratorKeyMinCacheSize candidate keys.
C12_BatchAtMostSize ==
    (out.op = "next" /\ out.called) => Len(out.batch) <= iteratorKeyMinCacheSize

\* C12 (as amended): an invocation of the primary-key or of the full-type
\* producer returns at most iteratorKeyMinCacheSize keys; an invocation of
\* the indexed-lookup producer appends whole KeyLists while the batch is
\* below that size, so it returns fewer keys than iteratorKeyMinCacheSize
\* plus the length of the longest stored KeyList.
C12_BatchBounded ==
    (out.op = "next" /\ out.called) =>
        IF out.before.strategy \in {"key", "full"}
        THEN Len(out.batch) <= iteratorKeyMinCacheSize
        ELSE Len(out.batch) < iteratorKeyMinCacheSize + LongestKeyList(db)

\* an indexed-lookup batch longer than iteratorKeyMinCacheSize
C12_Witness ==
    /\ out.op = "next"
    /\ out.called
    /\ out.before.strategy = "index"
    /\ Len(out.batch) > iteratorKeyMinCacheSize

\* b starts with prefix
StartsWith(b, prefix) ==
    \E n \in 0..Len(b) : SubSeq(b, 1, n) = prefix

\* the store holds a record of the type
HasRecords(st) == \E k \in DOMAIN st : StartsWith(k, typePrefix(TypeName))

\* the store holds an entry under the prefix of the index
HasEntries(st, indexName) ==
    \E k \in DOMAIN st : StartsWith(k, indexKeyPrefix(TypeName, indexName))

\* the criteria on the query's designated field include a match function
WithMatchFunc == query.criteria.kind = "fn"

\* C13: a query whose criteria on the designated field include a
\* match-function predicate never gets the indexed lookup, and newIterator
\* selects the full-type scan for it, for every designated field.
C13_MatchFuncFullScan ==
    (it.made /\ WithMatchFunc) => it.strategy = "full"

\* C13 (as amended): a query whose criteria on the designated field include
\* a match-function predicate never gets the indexed lookup, even when the
\* index exists and is usable; newIterator selects the full-type scan for
\* it when the designated field is an index field, and the primary-key scan
\* when the designated field is the primary key (Key), the first test
\* newIterator makes.
C13_MatchFuncNeverIndexed ==
    (it.made /\ WithMatchFunc) =>
        /\ it.strategy # "index"
        /\ query.index # Key => it.strategy = "full"
        /\ query.index = Key => it.strategy = "key"

\* a match function on the field of an index that has entries, in a store
\* that has records: the index is usable and the full-type scan is chosen
C13_Witness ==
    /\ it.made
    /\ WithMatchFunc
    /\ query.index = <<102>>
    /\ HasRecords(db)
    /\ HasEntries(db, query.index)
    /\ ~query.badIndex
    /\ it.strategy = "full"

\* C14: indexExists reports the index usable for a type that has no stored
\* record, whatever the index name; when the type has a record it reports
\* the index usable exactly when an entry exists under the prefix of the
\* (type, index) pair.  newIterator calls it for every query that names an
\* index and keeps the negated answer in query.badIndex.
C14_IndexExists ==
    (it.made /\ query.index # <<>>) =>
        (~query.badIndex) = (~HasRecords(db) \/ HasEntries(db, query.index))

\* no record of the type and no entry of the index (the store holds entries
\* of another index): the index is reported usable
C14_Witness ==
    /\ it.made
    /\ query.index = <<103>>
    /\ ~HasRecords(db)
    /\ ~HasEntries(db, query.index)
    /\ DOMAIN db # {}
    /\ ~query.badIndex

\* the keys of the records the store holds
StoredRecordKeys(st) == {k \in DOMAIN st : StartsWith(k, typePrefix(TypeName))}

\* the designated index is unusable: there are records of the type and no
\* entry under the prefix of the index
Unusable == query.index # <<>> /\ HasRecords(db) /\ ~HasEntries(db, query.index)

\* C15: when the designated index is unusable, newIterator records no error
\* and builds the full-type scan; the scan records no error, returns record
\* keys only, and when Next has returned (nil, nil) it has returned every
\* record key under the type prefix, once, whatever the field criteria.
C15_UnusableIndexFullScan ==
    (it.made /\ Unusable) =>
        /\ it.strategy = "full"
        /\ it.err = NoErr
        /\ Members(out.yielded) \subseteq StoredRecordKeys(db)
        /\ (out.op = "next" /\ out.isNil) =>
              /\ Members(out.yielded) = StoredRecordKeys(db)
              /\ Len(out.yielded) = Cardinality(StoredRecordKeys(db))

\* an unusable index, criteria whose evaluation would fail, and a finished
\* iteration that returned three record keys (more than one batch)
C15_Witness ==
    /\ it.made
    /\ Unusable
    /\ query.criteria.kind = "err"
    /\ out.op = "next"
    /\ out.isNil
    /\ Len(out.yielded) = 3

\* the indexed field of the queries
FieldF == <<102>>

\* the keys of the stored records whose field f encodes to e
RecordsWithF(st, e) ==
    {k \in StoredRecordKeys(st) :
        st[k].gob = "record" /\ Index(FieldF, st[k].data).key = e}

\* the index on f is consistent with the records: every stored record
\* decodes, and for each encoded value the entry exists exactly when a record
\* has that value and its KeyList is the ascending list of those records
ConsistentIndexF(st) ==
    /\ \A k \in StoredRecordKeys(st) : st[k].gob = "record"
    /\ \A e \in {<<1>>, <<2>>} :
          IF RecordsWithF(st, e) = {} THEN EntryKey(FieldF, e) \notin DOMAIN st
          ELSE /\ EntryKey(FieldF, e) \in DOMAIN st
               /\ st[EntryKey(FieldF, e)].gob = "keyList"
               /\ Members(st[EntryKey(FieldF, e)].data) = RecordsWithF(st, e)
               /\ StrictlyAscending(st[EntryKey(FieldF, e)].data)

\* C16: with a consistent index on field f, a query with the equality
\* criterion f == a gets the indexed lookup and its Next calls return
\* exactly the keys of the records whose f encodes to a, each once, in
\* ascending key order, and record no error.
C16_EqualityLookup ==
    (it.made /\ ConsistentIndexF(db) /\ query.index = FieldF
             /\ query.criteria.kind = "eq") =>
        /\ it.strategy = "index"
        /\ it.err = NoErr
        /\ StrictlyAscending(out.yielded)
        /\ Members(out.yielded) \subseteq RecordsWithF(db, query.criteria.arg)
        /\ (out.op = "next" /\ out.isNil) =>
              Members(out.yielded) = RecordsWithF(db, query.criteria.arg)

\* records {k1: a, k2: b, k3: a} with a consistent index, the query f == a,
\* and a finished iteration that returned k1 then k3
C16_Witness ==
    /\ it.made
    /\ ConsistentIndexF(db)
    /\ query.index = FieldF
    /\ query.criteria = Criteria("eq", <<1>>)
    /\ RecordsWithF(db, <<1>>) = {typePrefix(TypeName) \o <<1>>,
                                  typePrefix(TypeName) \o <<2>>}
    /\ RecordsWithF(db, <<2>>) = {typePrefix(TypeName) \o <<1, 2>>}
    /\ out.op = "next"
    /\ out.isNil
    /\ out.yielded = <<typePrefix(TypeName) \o <<1>>, typePrefix(TypeName) \o <<2>>>>

\* the key cache the last Next call popped from: the batch it fetched, or
\* the cache it found
CacheAtPop == IF out.called THEN out.batch ELSE out.before.keyCache

\* the last call was a Next that reached the pop: no error was recorded
\* before it and the cache it popped from was not empty
NextPopped ==
    /\ out.op = "next"
    /\ out.before.err = NoErr
    /\ Len(CacheAtPop) > 0

\* C17: when the candidate key popped from the key cache cannot be resolved
\* by the point lookup, Next records the lookup error and returns (nil, nil);
\* it pops that one key only and does not go on to the next key.
C17_LookupErrorRecorded ==
    (NextPopped /\ CacheAtPop[1] \notin DOMAIN db) =>
        /\ out.isNil
        /\ out.popped
        /\ out.cand = CacheAtPop[1]
        /\ out.error = ErrKeyNotFound
        /\ it.keyCache = Tail(CacheAtPop)

\* a candidate key the store does not hold, popped while the cache holds a
\* further key that the store does hold
C17_Witness ==
    /\ NextPopped
    /\ CacheAtPop[1] \notin DOMAIN db
    /\ Len(it.keyCache) > 0
    /\ it.keyCache[1] \in DOMAIN db

\* C18: for the primary-key scan and the full-type scan, the keys the
\* successive Next calls of one iterator return are strictly ascending over
\* the whole iteration, across batch boundaries too.
C18_ScanAscending ==
    (it.made /\ it.strategy \in {"key", "full"}) => StrictlyAscending(out.yielded)

\* a full-type scan that has returned more keys than one batch holds
C18_Witness ==
    /\ it.made
    /\ it.strategy = "full"
    /\ Len(out.yielded) > iteratorKeyMinCacheSize

\* what the unbatched scan of the iterator's strategy returns on the store
Unbatched ==
    unbatched(db, it.keys, it.strategy, it.prefix, it.criteria,
              seek(it.keys, it.prefix), <<>>)

\* v is an initial part of w
IsPrefixOf(v, w) == Len(v) <= Len(w) /\ SubSeq(w, 1, Len(v)) = v

\* Next has returned (nil, nil)
Ended == it.made /\ out.op = "next" /\ out.isNil

\* C19: the batch size does not affect results: when Next has returned its
\* first (nil, nil) the calls before it have returned every candidate key of
\* the selected strategy exactly once, in the sequence of the unbatched
\* scan, none lost or repeated at a batch boundary; and (nil, nil) with no
\* error is returned only when the prefix is exhausted.
C19_BatchSizeIrrelevant ==
    Ended =>
        /\ out.yielded = Unbatched.keys
        /\ out.error = NoErr => ~validForPrefix(it.keys, it.pos, it.prefix)

\* C19 (as amended): the keys the Next calls return are always an initial
\* part of the sequence of the unbatched scan (none repeated, none out of
\* place, and no more of them than the scan has: the pulling terminates);
\* when Next returns (nil, nil) with no error recorded the prefix is
\* exhausted, the key cache is empty and the whole sequence of the unbatched
\* scan has been returned; when it returns (nil, nil) with an error, the
\* unbatched scan ends in an error too, but the keys returned before it may
\* be fewer than the unbatched scan returns, by the keys of the batch the
\* failing producer call had gathered.
C19_BatchedIsPrefixOfUnbatched ==
    it.made =>
        /\ IsPrefixOf(out.yielded, Unbatched.keys)
        /\ (Ended /\ out.error = NoErr) =>
              /\ ~validForPrefix(it.keys, it.pos, it.prefix)
              /\ it.keyCache = <<>>
              /\ Unbatched.err = NoErr
              /\ out.yielded = Unbatched.keys
        /\ (Ended /\ out.error # NoErr) => Unbatched.err # NoErr

\* an iteration over more keys than one batch holds that has ended with no
\* error and with every key returned
C19_Witness ==
    /\ Ended
    /\ out.error = NoErr
    /\ it.strategy = "key"
    /\ Len(out.yielded) > iteratorKeyMinCacheSize
    /\ out.yielded = Unbatched.keys

(***************************************************************************)
(* SpecKeyList: add and remove calls on one keyList, from the empty list   *)
(***************************************************************************)
InitKeyList == IdleKeyList /\ IdleIndex /\ IdlePrefix /\ IdleIter

KLAdd(k) ==
    /\ Len(list) < MaxListLen \/ k \in Members(list)
    /\ list' = add(list, k)
    /\ listPrev' = list
    /\ listOp' = [op |-> "add", key |-> k]
    /\ UNCHANGED <<ixVars, pfx, itVars>>

KLRemove(k) ==
    /\ list' = remove(list, k)
    /\ listPrev' = list
    /\ listOp' = [op |-> "remove", key |-> k]
    /\ UNCHANGED <<ixVars, pfx, itVars>>

NextKeyList ==
    \/ \E k \in Keys : KLAdd(k)
    \/ \E k \in Keys : KLRemove(k)

SpecKeyList == InitKeyList /\ [][NextKeyList]_vars

\* C2: keyList.remove(k) on a list that does not contain k leaves the list
\* as it was, for every list and every absent k.
C2_RemoveAbsentIsNoOp ==
    (listOp.op = "remove" /\ listOp.key \notin Members(listPrev))
        => list = listPrev

\* C3: from the empty list, after any sequence of add and remove calls the
\* list is strictly ascending in byte-string order (sorted, no duplicates).
C3_ListStrictlyAscending == StrictlyAscending(list)

C3_Witness ==
    /\ listOp.op = "remove"
    /\ Len(listPrev) = 3
    /\ Len(list) = 2
    /\ \E n \in 1..2 : Len(list[n]) # Len(list[1])

\* C4: add(k) leaves the list unchanged when k is present; otherwise the
\* result is the old list with k inserted at its sorted position, in(k) is
\* true afterwards and every key present before is still present.
C4_AddInsertsSorted ==
    listOp.op = "add" =>
        LET k == listOp.key
        IN  IF k \in Members(listPrev)
            THEN list = listPrev
            ELSE /\ \E n \in 0..Len(listPrev) :
                      /\ list = SubSeq(listPrev, 1, n) \o <<k>>
                                   \o SubSeq(listPrev, n + 1, Len(listPrev))
                      /\ \A m \in 1..n : ByteLess(listPrev[m], k)
                      /\ \A m \in (n + 1)..Len(listPrev) : ByteLess(k, listPrev[m])
                 /\ in(list, k)
                 /\ Members(listPrev) \subseteq Members(list)

C4_Witness ==
    /\ listOp.op = "add"
    /\ listOp.key \notin Members(listPrev)
    /\ Len(list) = 3
    /\ list[2] = listOp.key

====
